---- MODULE Spec2Model ----
(***************************************************************************)
(* Model of solutions/python/rna-strand-folding-score.py: the interval DP  *)
(* maxRNAFoldingScore, once as a step machine over its loop variables      *)
(* (Spec) and once as a function applied atomically by callers (SpecCalls);*)
(* of tools/test_runner.py: the TestResult counters (SpecTest); and of     *)
(* tools/problem_manager.py: the problem store on disk (SpecStore), its    *)
(* statistics (SpecStats); the TestRunner entry points (SpecRunner); and   *)
(* of tools/claude_helper.py: generate_problem (SpecGen).                  *)
(***************************************************************************)
EXTENDS Integers, Sequences, FiniteSets, TLC

(* ------------------------------ bounds -------------------------------- *)

\* longest sequence over {A,U,G,C} a single invocation is run on
MaxLen == 5
\* longest sequence over the full symbol set (foreign and lowercase included)
MaxDirtyLen == 3
\* longest first operand s of a caller
MaxPart == 3
\* longest second operand t of a caller
MaxSuffix == 2
\* longest sequence a caller reorders
MaxPermLen == 4
\* longest sequence of a concurrent caller
MaxParLen == 3
\* longest sequence a caller reverses
MaxRevLen == 5
\* most add_result calls on one TestResult
MaxResults == 4
\* most ProblemManager operations on one store
MaxOps == 4
\* most documents in a store get_stats is run on
MaxDocs == 2
\* most lines of pytest output
MaxLines == 2

(* ------------------------------ inputs -------------------------------- *)

Alphabet == {"A", "U", "G", "C"}
Lowercase == {"a", "u", "g", "c"}
Foreign == {"X"}
Symbols == Alphabet \cup Lowercase \cup Foreign

SeqsOver(S, lo, hi) == UNION {[1..m -> S] : m \in lo..hi}

\* the sequences the module's own tests and documentation use
Literals ==
  { <<"A","C">>,
    <<"A","U","U","G","C">>,
    <<"A","A","U","U">>,
    <<"A","U","G","C","A","U">>,
    <<"G","G","G","G","C","C","C","C">>,
    <<"A","U","G","U">>,
    <<"G","C","A","U","G","C","A","U">>,
    <<"G","C","A","U">> }

Inputs == SeqsOver(Alphabet, 0, MaxLen) \cup SeqsOver(Symbols, 0, MaxDirtyLen) \cup Literals

(* ------------------------------ state --------------------------------- *)

VARIABLES
  sequence,   \* the argument of the running invocation
  n,          \* len(sequence)
  dp,         \* the DP table, dp[a][b] for 0 <= a, b < n
  l, i, j, k, \* the loop variables
  pc,         \* position in maxRNAFoldingScore
  outcome,    \* how the invocation ended
  reads,      \* history: the cells of shorter intervals the fill has read
  writes,     \* history: the cells the fill has written
  finished,   \* history: the cells whose k loop has ended
  s, t,       \* a caller's two operands
  ret,        \* the outcomes of the caller's invocations, by argument
  fr,         \* concurrent callers: the locals of each caller's invocation
  heap,       \* concurrent callers: the table objects, by reference
  passed, failed, errors, total, \* TestResult: the four counters
  details,    \* TestResult: the detail records, in call order
  problemDirs,   \* store: the directories that exist under problems/
  problemFiles,  \* store: the documents under problems/, by <<directory, file stem>>
  solutionFiles, \* store: the files under solutions/, by <<language, file stem>>
  templates,     \* store: the template files under templates/, by language
  result,        \* store: how the last ProblemManager operation ended
  nops,          \* store: the number of operations so far
  overwritten,   \* store, history: the solved solution files add_problem has replaced
  call,          \* TestRunner: the entry point called last, with its arguments
  spawned,       \* TestRunner, history: the subprocesses the call has started
  validation,    \* TestRunner: what validate_solution returned
  reply,         \* ClaudeHelper: what the API answers to the request
  generated      \* ClaudeHelper: how generate_problem ended

frame == <<sequence, n, dp, l, i, j, k, pc, outcome, reads, writes, finished>>
calls == <<s, t, ret>>
par == <<fr, heap>>
test == <<passed, failed, errors, total, details>>
store == <<problemDirs, problemFiles, solutionFiles, templates, result, nops, overwritten>>
runner == <<call, spawned, validation>>
gen == <<reply, generated>>
vars == <<frame, calls, par, test, store, runner, gen>>
notFrame == <<calls, par, test, store, runner, gen>>
notCalls == <<frame, par, test, store, runner, gen>>
notPar == <<frame, calls, test, store, runner, gen>>
notTest == <<frame, calls, par, store, runner, gen>>
notStore == <<frame, calls, par, test, runner, gen>>
notRunner == <<frame, calls, par, test, store, gen>>
notRunnerTest == <<frame, calls, par, store, gen>>
notGen == <<frame, calls, par, test, store, runner>>

NoOutcome == [kind |-> "none", value |-> 0, exc |-> ""]

\* Optional[...]: None, or the value
None == <<>>
Some(v) == <<v>>
\* how a ProblemManager operation ended: the document or the flag it returned, or the exception
\* no entry point of TestRunner has been called
NoCall == [op |-> "none", problem_id |-> <<>>, language |-> ""]
NoValidation == [ok |-> FALSE, issues |-> <<>>]
\* the empty dict
EmptyDict == [key \in {} |-> ""]
\* generate_problem has not ended
NotGenerated == [kind |-> "none", value |-> EmptyDict, exc |-> ""]
NoReply == [transport |-> "none", body |-> "none", content |-> "none", keys |-> {}]

\* a directory tree without files
NoFiles == [path \in {} |-> None]
NoResult == [op |-> "none", kind |-> "none", doc |-> None, ok |-> FALSE, exc |-> ""]
Returned(v) == [kind |-> "return", value |-> v, exc |-> ""]
Raised(e) == [kind |-> "raise", value |-> 0, exc |-> e]

Tags == {"s", "t", "st", "upper"}

\* two independent callers
Callers == {1, 2}

(* ------------------------- the function's parts ------------------------ *)

Max(a, b) == IF a >= b THEN a ELSE b

\* a Python list of length len accepts the indices -len .. len-1
PyIndexOK(len, idx) == -len <= idx /\ idx < len
PyIndex(len, idx) == IF idx < 0 THEN idx + len ELSE idx

\* dp = [[0] * n for _ in range(n)]
ZeroTable_diagonal(len) ==
  [a \in 0..(len - 1) |-> [b \in 0..(len - 1) |-> IF a = b THEN 1 ELSE 0]]

ZeroTable(len) == [a \in 0..(len - 1) |-> [b \in 0..(len - 1) |-> 0]]

can_pair_wobble(x, y) ==
  \/ (x = "A" /\ y = "U")
  \/ (x = "U" /\ y = "A")
  \/ (x = "G" /\ y = "C")
  \/ (x = "C" /\ y = "G")
  \/ (x = "G" /\ y = "U")
  \/ (x = "U" /\ y = "G")

can_pair_oneway(x, y) ==
  \/ (x = "A" /\ y = "U")
  \/ (x = "G" /\ y = "C")
  \/ (x = "C" /\ y = "G")

can_pair(x, y) ==
  \/ (x = "A" /\ y = "U")
  \/ (x = "U" /\ y = "A")
  \/ (x = "G" /\ y = "C")
  \/ (x = "C" /\ y = "G")

\* the number of rows of a table
Size(d) == Cardinality(DOMAIN d)

\* d[c[1]][c[2]] is defined when both indices are in the list's range
InRange(d, c) == PyIndexOK(Size(d), c[1]) /\ PyIndexOK(Size(d), c[2])
At(d, c) == d[PyIndex(Size(d), c[1])][PyIndex(Size(d), c[2])]

\* j = i + l - 1
EndOf_long(a, len) == a + len

EndOf(a, len) == a + len - 1

\* Case 1: dp[i][j] = dp[i + 1][j]
UnpairedCell(a, b) == <<a + 1, b>>

Unpaired_zero(d, a, b) == 0

Unpaired(d, a, b) == At(d, UnpairedCell(a, b))

\* Case 2: the score of pairing a with c inside [a, b]
PairScore_noinner(d, a, b, c) ==
  1 + (IF c < b THEN d[c + 1][b] ELSE 0)

PairScore_nosuffix(d, a, b, c) ==
  1 + (IF a + 1 < c THEN d[a + 1][c - 1] ELSE 0)

PairScore_overlap(d, a, b, c) ==
  1 + (IF c < b THEN d[a + 1][b] ELSE 0)
    + (IF a + 1 < c THEN d[a + 1][c - 1] ELSE 0)

PairScore_uptok(d, a, b, c) ==
  1 + (IF c < b THEN d[c + 1][b] ELSE 0)
    + (IF a + 1 < c THEN d[a + 1][c] ELSE 0)

\* the cells Case 2 reads: dp[k + 1][j] if k < j, dp[i + 1][k - 1] if i + 1 < k
PairCells_le(a, b, c) ==
  (IF c <= b THEN <<(<<c + 1, b>>)>> ELSE <<>>)
    \o (IF a + 1 < c THEN <<(<<a + 1, c - 1>>)>> ELSE <<>>)

PairCells(a, b, c) ==
  (IF c < b THEN <<(<<c + 1, b>>)>> ELSE <<>>)
    \o (IF a + 1 < c THEN <<(<<a + 1, c - 1>>)>> ELSE <<>>)

RECURSIVE SumAt(_, _)
SumAt(d, cells) ==
  IF cells = <<>> THEN 0 ELSE At(d, Head(cells)) + SumAt(d, Tail(cells))

PairScore(d, a, b, c) == 1 + SumAt(d, PairCells(a, b, c))

\* dp[i][j] = max(dp[i][j], score)
Relax_overwrite(d, a, b, c) == [d EXCEPT ![a][b] = PairScore(d, a, b, c)]

Relax(d, a, b, c) == [d EXCEPT ![a][b] = Max(@, PairScore(d, a, b, c))]

Range(cells) == {cells[p] : p \in 1..Len(cells)}

\* return dp[0][n - 1]
ReturnValue_pastend(d, len) ==
  IF PyIndexOK(len, 0) /\ PyIndexOK(len, len)
  THEN Returned(d[PyIndex(len, 0)][PyIndex(len, len)])
  ELSE Raised("IndexError")

ReturnValue(d, len) ==
  IF PyIndexOK(len, 0) /\ PyIndexOK(len, len - 1)
  THEN Returned(d[PyIndex(len, 0)][PyIndex(len, len - 1)])
  ELSE Raised("IndexError")

(* ------------------- one invocation, statement by statement ------------ *)

\* no invocation is running
IdleFrame ==
  /\ sequence = <<>>
  /\ n = 0
  /\ dp = ZeroTable(0)
  /\ l = 0 /\ i = 0 /\ j = 0 /\ k = 0
  /\ pc = "idle"
  /\ outcome = NoOutcome
  /\ reads = {} /\ writes = {} /\ finished = {}

\* no caller is running
IdleCalls ==
  /\ s = <<>> /\ t = <<>>
  /\ ret = [g \in Tags |-> NoOutcome]

\* no concurrent caller is running
IdlePar ==
  /\ fr = [c \in Callers |-> [sequence |-> <<>>, n |-> 0, dp |-> 0, l |-> 0, i |-> 0,
                              j |-> 0, k |-> 0, pc |-> "idle", outcome |-> NoOutcome]]
  /\ heap = [c \in Callers |-> ZeroTable(0)]

\* no TestResult is in use
IdleTest ==
  /\ passed = 0 /\ failed = 0 /\ errors = 0 /\ total = 0
  /\ details = <<>>

\* no ProblemManager is in use
IdleStore ==
  /\ problemDirs = {}
  /\ problemFiles = NoFiles
  /\ solutionFiles = NoFiles
  /\ templates = NoFiles
  /\ result = NoResult
  /\ nops = 0
  /\ overwritten = {}

\* no TestRunner is in use
IdleRunner ==
  /\ call = NoCall
  /\ spawned = 0
  /\ validation = NoValidation

\* no ClaudeHelper is in use
IdleGen ==
  /\ reply = NoReply
  /\ generated = NotGenerated

Init ==
  /\ sequence \in Inputs
  /\ n = 0
  /\ dp = ZeroTable(0)
  /\ l = 0 /\ i = 0 /\ j = 0 /\ k = 0
  /\ pc = "start"
  /\ outcome = NoOutcome
  /\ reads = {} /\ writes = {} /\ finished = {}
  /\ IdleCalls
  /\ IdlePar
  /\ IdleTest
  /\ IdleStore
  /\ IdleRunner
  /\ IdleGen

\* n = len(sequence); dp = [[0] * n for _ in range(n)]
Begin ==
  /\ pc = "start"
  /\ n' = Len(sequence)
  /\ dp' = ZeroTable(Len(sequence))
  /\ l' = 2
  /\ pc' = "for_l"
  /\ UNCHANGED <<sequence, i, j, k, outcome, reads, writes, finished, notFrame>>

\* for l in range(2, n + 1)
ForL ==
  /\ pc = "for_l"
  /\ IF l <= n
     THEN /\ i' = 0
          /\ pc' = "for_i"
     ELSE /\ i' = i
          /\ pc' = "return"
  /\ UNCHANGED <<sequence, n, dp, l, j, k, outcome, reads, writes, finished, notFrame>>

\* for i in range(n - l + 1): j = i + l - 1; dp[i][j] = dp[i + 1][j]
\* (an index outside the list's range raises IndexError)
ForI ==
  /\ pc = "for_i"
  /\ IF i <= n - l
     THEN /\ j' = EndOf(i, l)
          /\ reads' = reads \cup {UnpairedCell(i, EndOf(i, l))}
          /\ writes' = writes \cup {<<i, EndOf(i, l)>>}
          /\ IF InRange(dp, UnpairedCell(i, EndOf(i, l))) /\ InRange(dp, <<i, EndOf(i, l)>>)
             THEN /\ dp' = [dp EXCEPT ![i][EndOf(i, l)] = Unpaired(dp, i, EndOf(i, l))]
                  /\ k' = i + 1
                  /\ pc' = "for_k"
                  /\ outcome' = outcome
             ELSE /\ outcome' = Raised("IndexError")
                  /\ pc' = "done"
                  /\ UNCHANGED <<dp, k>>
          /\ l' = l
     ELSE /\ l' = l + 1
          /\ pc' = "for_l"
          /\ UNCHANGED <<j, dp, k, outcome, reads, writes>>
  /\ UNCHANGED <<sequence, n, i, finished, notFrame>>

\* for k in range(i + 1, j + 1)
ForK ==
  /\ pc = "for_k"
  /\ IF k <= j
     THEN /\ pc' = "if_pair"
          /\ i' = i
          /\ finished' = finished
     ELSE /\ i' = i + 1
          /\ pc' = "for_i"
          /\ finished' = finished \cup {<<i, j>>}
  /\ UNCHANGED <<sequence, n, dp, l, j, k, outcome, reads, writes, notFrame>>

\* if can_pair(sequence[i], sequence[k])
IfPair ==
  /\ pc = "if_pair"
  /\ IF can_pair(sequence[i + 1], sequence[k + 1])
     THEN /\ pc' = "pair"
          /\ k' = k
     ELSE /\ k' = k + 1
          /\ pc' = "for_k"
  /\ UNCHANGED <<sequence, n, dp, l, i, j, outcome, reads, writes, finished, notFrame>>

\* score = 1 (+ dp[k + 1][j]) (+ dp[i + 1][k - 1]); dp[i][j] = max(dp[i][j], score)
\* (an index outside the list's range raises IndexError)
Pair ==
  /\ pc = "pair"
  /\ reads' = reads \cup Range(PairCells(i, j, k))
  /\ writes' = writes \cup {<<i, j>>}
  /\ IF \A c \in Range(PairCells(i, j, k)) \cup {<<i, j>>} : InRange(dp, c)
     THEN /\ dp' = Relax(dp, i, j, k)
          /\ k' = k + 1
          /\ pc' = "for_k"
          /\ outcome' = outcome
     ELSE /\ outcome' = Raised("IndexError")
          /\ pc' = "done"
          /\ UNCHANGED <<dp, k>>
  /\ UNCHANGED <<sequence, n, l, i, j, finished, notFrame>>

\* return dp[0][n - 1]
Return ==
  /\ pc = "return"
  /\ outcome' = ReturnValue(dp, n)
  /\ pc' = "done"
  /\ UNCHANGED <<sequence, n, dp, l, i, j, k, reads, writes, finished, notFrame>>

Next == Begin \/ ForL \/ ForI \/ ForK \/ IfPair \/ Pair \/ Return

Spec == Init /\ [][Next]_vars

\* the interpreter keeps executing the one thread of an invocation
SpecFair == Spec /\ WF_vars(Next)

(* --------------- the function as its callers see it -------------------- *)

\* the table d as a value: always true, and it makes TLC compute the table of
\* one iteration before it starts the next
Evaluated(d) == Size(d) >= 0

\* the k loop of one cell, from k = c on
RECURSIVE ForKLoop(_, _, _, _, _)
ForKLoop(seq, d, a, b, c) ==
  IF Evaluated(d) /\ c > b THEN d
  ELSE ForKLoop(seq,
                IF can_pair(seq[a + 1], seq[c + 1]) THEN Relax(d, a, b, c) ELSE d,
                a, b, c + 1)

\* the i loop of one length, from i = a on
RECURSIVE ForILoop(_, _, _, _)
ForILoop(seq, d, len, a) ==
  IF Evaluated(d) /\ a > Len(seq) - len THEN d
  ELSE LET b == EndOf(a, len)
           d1 == [d EXCEPT ![a][b] = Unpaired(d, a, b)]
       IN ForILoop(seq, ForKLoop(seq, d1, a, b, a + 1), len, a + 1)

\* the l loop, from l = len on
RECURSIVE ForLLoop(_, _, _)
ForLLoop(seq, d, len) ==
  IF Evaluated(d) /\ len > Len(seq) THEN d
  ELSE ForLLoop(seq, ForILoop(seq, d, len, 0), len + 1)

\* the outcome of one whole invocation
maxRNAFoldingScore(seq) ==
  ReturnValue(ForLLoop(seq, ZeroTable(Len(seq)), 2), Len(seq))

\* str.upper() on the symbols of the model
UpperSym(c) ==
  CASE c = "a" -> "A"
    [] c = "u" -> "U"
    [] c = "g" -> "G"
    [] c = "c" -> "C"
    [] OTHER -> c

Upper(seq) == [p \in 1..Len(seq) |-> UpperSym(seq[p])]

\* the argument a caller passes in each of its invocations
Arg(g) ==
  CASE g = "s" -> s
    [] g = "t" -> t
    [] g = "st" -> s \o t
    [] g = "upper" -> Upper(s)

\* seq with the symbols at positions p and q exchanged
Swap(seq, p, q) ==
  SubSeq(seq, 1, p - 1) \o <<seq[q]>> \o SubSeq(seq, p + 1, q - 1)
    \o <<seq[p]>> \o SubSeq(seq, q + 1, Len(seq))

Swaps(seq) == {Swap(seq, c[1], c[2]) : c \in {e \in (1..Len(seq)) \X (1..Len(seq)) : e[1] < e[2]}}

\* a caller holds either two sequences over {A,U,G,C} or one sequence that
\* may contain lowercase letters
InitCalls ==
  /\ \/ /\ s \in SeqsOver(Alphabet, 0, MaxPart)
        /\ t \in SeqsOver(Alphabet, 0, MaxSuffix)
     \/ /\ s \in SeqsOver(Alphabet \cup Lowercase, 1, MaxDirtyLen)
        /\ t = <<>>
  /\ ret = [g \in Tags |-> NoOutcome]
  /\ IdleFrame
  /\ IdlePar
  /\ IdleTest
  /\ IdleStore
  /\ IdleRunner
  /\ IdleGen

\* one invocation, start to end: the function shares nothing with its caller
Call ==
  \E g \in Tags :
    /\ ret[g].kind = "none"
    /\ ret' = [ret EXCEPT ![g] = maxRNAFoldingScore(Arg(g))]
    /\ UNCHANGED <<s, t, notCalls>>

NextCalls == Call

SpecCalls == InitCalls /\ [][NextCalls]_vars

\* a caller that holds a sequence over {A,U,G,C} and a reordering of it, and
\* invokes the function on each
InitPerm ==
  /\ s \in SeqsOver(Alphabet, 2, MaxPermLen)
  /\ t \in Swaps(s)
  /\ ret = [g \in Tags |-> NoOutcome]
  /\ IdleFrame
  /\ IdlePar
  /\ IdleTest
  /\ IdleStore
  /\ IdleRunner
  /\ IdleGen

CallOperand ==
  \E g \in {"s", "t"} :
    /\ ret[g].kind = "none"
    /\ ret' = [ret EXCEPT ![g] = maxRNAFoldingScore(Arg(g))]
    /\ UNCHANGED <<s, t, notCalls>>

NextPerm == CallOperand

SpecPerm == InitPerm /\ [][NextPerm]_vars

\* seq[::-1]
Reverse(seq) == [p \in 1..Len(seq) |-> seq[Len(seq) + 1 - p]]

\* a caller that holds a non-empty sequence over {A,U,G,C} and its reversal, and
\* invokes the function on each
InitRev ==
  /\ s \in SeqsOver(Alphabet, 1, MaxRevLen)
  /\ t = Reverse(s)
  /\ ret = [g \in Tags |-> NoOutcome]
  /\ IdleFrame
  /\ IdlePar
  /\ IdleTest
  /\ IdleStore
  /\ IdleRunner
  /\ IdleGen

SpecRev == InitRev /\ [][NextPerm]_vars

(* ---------------- two callers, their steps interleaved ----------------- *)

\* the symbols of the concurrent callers' sequences
ParAlphabet == {"A", "U"}

\* dp = [[0] * n for _ in range(n)] makes a new list object in every
\* invocation: the reference the invocation of caller c gets
Alloc_shared(c) == 1

Alloc(c) == c

InitPar ==
  /\ fr \in [Callers -> {[sequence |-> q, n |-> 0, dp |-> 0, l |-> 0, i |-> 0, j |-> 0,
                          k |-> 0, pc |-> "start", outcome |-> NoOutcome] :
                           q \in SeqsOver(ParAlphabet, 1, MaxParLen)}]
  /\ heap = [c \in Callers |-> ZeroTable(0)]
  /\ IdleFrame
  /\ IdleCalls
  /\ IdleTest
  /\ IdleStore
  /\ IdleRunner
  /\ IdleGen

\* n = len(sequence); dp = [[0] * n for _ in range(n)]
PBegin(c) ==
  /\ fr[c].pc = "start"
  /\ fr' = [fr EXCEPT ![c] = [@ EXCEPT !.n = Len(fr[c].sequence), !.dp = Alloc(c),
                                       !.l = 2, !.pc = "for_l"]]
  /\ heap' = [heap EXCEPT ![Alloc(c)] = ZeroTable(Len(fr[c].sequence))]
  /\ UNCHANGED notPar

\* for l in range(2, n + 1)
PForL(c) ==
  /\ fr[c].pc = "for_l"
  /\ fr' = [fr EXCEPT ![c] = IF @.l <= @.n
                             THEN [@ EXCEPT !.i = 0, !.pc = "for_i"]
                             ELSE [@ EXCEPT !.pc = "return"]]
  /\ UNCHANGED <<heap, notPar>>

\* for i in range(n - l + 1): j = i + l - 1; dp[i][j] = dp[i + 1][j]
PForI(c) ==
  LET f == fr[c]
      d == heap[f.dp]
      b == EndOf(f.i, f.l)
  IN /\ f.pc = "for_i"
     /\ IF f.i <= f.n - f.l
        THEN IF InRange(d, UnpairedCell(f.i, b)) /\ InRange(d, <<f.i, b>>)
             THEN /\ heap' = [heap EXCEPT ![f.dp] = [d EXCEPT ![f.i][b] = Unpaired(d, f.i, b)]]
                  /\ fr' = [fr EXCEPT ![c] = [@ EXCEPT !.j = b, !.k = f.i + 1, !.pc = "for_k"]]
             ELSE /\ heap' = heap
                  /\ fr' = [fr EXCEPT ![c] = [@ EXCEPT !.j = b, !.pc = "done",
                                                       !.outcome = Raised("IndexError")]]
        ELSE /\ heap' = heap
             /\ fr' = [fr EXCEPT ![c] = [@ EXCEPT !.l = @ + 1, !.pc = "for_l"]]
     /\ UNCHANGED notPar

\* for k in range(i + 1, j + 1)
PForK(c) ==
  /\ fr[c].pc = "for_k"
  /\ fr' = [fr EXCEPT ![c] = IF @.k <= @.j
                             THEN [@ EXCEPT !.pc = "if_pair"]
                             ELSE [@ EXCEPT !.i = @ + 1, !.pc = "for_i"]]
  /\ UNCHANGED <<heap, notPar>>

\* if can_pair(sequence[i], sequence[k])
PIfPair(c) ==
  /\ fr[c].pc = "if_pair"
  /\ fr' = [fr EXCEPT ![c] = IF can_pair(@.sequence[@.i + 1], @.sequence[@.k + 1])
                             THEN [@ EXCEPT !.pc = "pair"]
                             ELSE [@ EXCEPT !.k = @ + 1, !.pc = "for_k"]]
  /\ UNCHANGED <<heap, notPar>>

\* score = 1 (+ dp[k + 1][j]) (+ dp[i + 1][k - 1]); dp[i][j] = max(dp[i][j], score)
PPair(c) ==
  LET f == fr[c]
      d == heap[f.dp]
  IN /\ f.pc = "pair"
     /\ IF \A e \in Range(PairCells(f.i, f.j, f.k)) \cup {<<f.i, f.j>>} : InRange(d, e)
        THEN /\ heap' = [heap EXCEPT ![f.dp] = Relax(d, f.i, f.j, f.k)]
             /\ fr' = [fr EXCEPT ![c] = [@ EXCEPT !.k = @ + 1, !.pc = "for_k"]]
        ELSE /\ heap' = heap
             /\ fr' = [fr EXCEPT ![c] = [@ EXCEPT !.pc = "done",
                                                  !.outcome = Raised("IndexError")]]
     /\ UNCHANGED notPar

\* return dp[0][n - 1]
PReturn(c) ==
  /\ fr[c].pc = "return"
  /\ fr' = [fr EXCEPT ![c] = [@ EXCEPT !.pc = "done",
                                       !.outcome = ReturnValue(heap[fr[c].dp], fr[c].n)]]
  /\ UNCHANGED <<heap, notPar>>

StepOf(c) ==
  PBegin(c) \/ PForL(c) \/ PForI(c) \/ PForK(c) \/ PIfPair(c) \/ PPair(c) \/ PReturn(c)

NextPar == \E c \in Callers : StepOf(c)

SpecPar == InitPar /\ [][NextPar]_vars

(* ----------------------- tools/test_runner.py: TestResult --------------- *)

Statuses == {"passed", "failed", "error"}
\* a status add_result has no counter for
OtherStatuses == {"skipped"}
TestNames == {"test_a", "test_b"}

\* every status increments every counter
Incr_always(v, status, on) == v + 1

\* if status == on: counter += 1
Incr(v, status, on) == IF status = on THEN v + 1 ELSE v

\* TestResult(): the counters at zero, no details
TestResultInit ==
  /\ passed = 0 /\ failed = 0 /\ errors = 0 /\ total = 0
  /\ details = <<>>

InitTest ==
  /\ TestResultInit
  /\ IdleFrame
  /\ IdleCalls
  /\ IdlePar
  /\ IdleStore
  /\ IdleRunner
  /\ IdleGen

\* TestResult.add_result(name, status, message, time)
add_result(name, status, message, time) ==
  /\ Len(details) < MaxResults
  /\ details' = Append(details, [name |-> name, status |-> status,
                                 message |-> message, time |-> time])
  /\ passed' = Incr(passed, status, "passed")
  /\ failed' = Incr(failed, status, "failed")
  /\ errors' = Incr(errors, status, "error")
  /\ total' = total + 1
  /\ UNCHANGED notTest

NextTest ==
  \E name \in TestNames : \E status \in Statuses \cup OtherStatuses :
    add_result(name, status, "", 0)

SpecTest == InitTest /\ [][NextTest]_vars

(* ------------------ tools/problem_manager.py: ProblemManager ------------ *)

\* the tier directories, in the order get_problem searches them
Tiers == <<"easy", "medium", "hard">>
TierSet == {Tiers[m] : m \in 1..Len(Tiers)}
\* the difficulty arguments add_problem is given
Difficulties == TierSet \cup {"Hard"}
Languages == {"python", "react-ts"}

\* titles, as character sequences: "A b", "a--b!", "B "
Titles == { <<"A", " ", "b">>, <<"a", "-", "-", "b", "!">>, <<"B", " ">> }
TopicLists == { <<"dp">> }
Descriptions == { "" }

\* str.lower() on a difficulty
LowerWord(d) == IF d = "Hard" THEN "hard" ELSE d
\* str.lower() on a character
LowerChar(c) == CASE c = "A" -> "a" [] c = "B" -> "b" [] OTHER -> c
\* \w
WordChars == {"a", "b", "A", "B"}
\* [-\s]
Separators == {"-", " "}

MapChars(seq) == [m \in 1..Len(seq) |-> LowerChar(seq[m])]
KeptChar(c) == c \in WordChars \cup Separators
\* re.sub(r'[^\w\s-]', '', ...)
DropOthers(seq) == SelectSeq(seq, KeptChar)

RECURSIVE SkipSeparators(_)
SkipSeparators(seq) ==
  IF seq # <<>> /\ Head(seq) \in Separators THEN SkipSeparators(Tail(seq)) ELSE seq

\* re.sub(r'[-\s]+', '-', ...)
RECURSIVE Collapse(_)
Collapse(seq) ==
  IF seq = <<>> THEN <<>>
  ELSE IF Head(seq) \in Separators THEN <<"-">> \o Collapse(SkipSeparators(seq))
  ELSE <<Head(seq)>> \o Collapse(Tail(seq))

RECURSIVE LStrip(_)
LStrip(seq) == IF seq # <<>> /\ Head(seq) = "-" THEN LStrip(Tail(seq)) ELSE seq
RECURSIVE RStrip(_)
RStrip(seq) ==
  IF seq # <<>> /\ seq[Len(seq)] = "-" THEN RStrip(SubSeq(seq, 1, Len(seq) - 1)) ELSE seq
\* str.strip('-')
Strip(seq) == RStrip(LStrip(seq))

\* ProblemManager._generate_id(title)
generate_id(title) == Strip(Collapse(DropOthers(MapChars(title))))

\* the ids the operations are called with
Ids == {generate_id(title) : title \in Titles}

\* open(path, 'w') and write
WriteFile(files, path, content) ==
  [q \in DOMAIN files \cup {path} |-> IF q = path THEN content ELSE files[q]]
\* path.unlink()
Unlink(files, paths) == [q \in DOMAIN files \ paths |-> files[q]]
Exists(files, path) == path \in DOMAIN files

\* the words _is_problem_solved looks for in a solution file
MarkerWords == {"pass", "null"}
\* templates/python_solution_template.py: the method bodies are 'pass'
PythonTemplateWords == {"pass"}
\* the marker words a template file for TypeScript may hold
TsTemplateWords == {{}, {"null"}}

\* the template files a working directory may hold, each as the marker words of its text
TemplateDirs ==
  {f \in UNION {[L -> SUBSET MarkerWords] : L \in SUBSET Languages} :
     /\ "python" \in DOMAIN f => f["python"] = PythonTemplateWords
     /\ "react-ts" \in DOMAIN f => f["react-ts"] \in TsTemplateWords}

\* the text of a solution file made from a template: the placeholders replaced, the
\* marker words of the template kept
TemplateText(words, problem) == [text |-> "template", title |-> problem.title, words |-> words]

\* the text of a solution a user has written: an implementation, no marker word left
SolutionText(old) == [text |-> "solution", title |-> old.title, words |-> {}]

\* a solution file is written only where none exists
create_solution_templates_keep(files, problem_id, problem) ==
  [q \in DOMAIN files \cup {<<lang, problem_id>> : lang \in DOMAIN templates} |->
     IF q \in DOMAIN files THEN files[q] ELSE TemplateText(templates[q[1]], problem)]

\* ProblemManager._create_solution_templates(problem_id, problem)
create_solution_templates(files, problem_id, problem) ==
  [q \in DOMAIN files \cup {<<lang, problem_id>> : lang \in DOMAIN templates} |->
     IF q[1] \in DOMAIN templates /\ q[2] = problem_id
       THEN TemplateText(templates[q[1]], problem)
       ELSE files[q]]

\* the test of _is_problem_solved on one file: it exists and holds neither 'pass' nor 'null'
FileSolved(files, path) ==
  Exists(files, path) /\ "pass" \notin files[path].words /\ "null" \notin files[path].words

\* ProblemManager._is_problem_solved(problem_id)
is_problem_solved(files, problem_id) ==
  \E lang \in Languages : FileSolved(files, <<lang, problem_id>>)

\* the tiers, by position, that hold a document named problem_id
FoundIn(files, problem_id) == {m \in 1..Len(Tiers) : Exists(files, <<Tiers[m], problem_id>>)}
First(S) == CHOOSE m \in S : \A o \in S : m <= o

\* ProblemManager.get_problem(problem_id)
get_problem(files, problem_id) ==
  IF FoundIn(files, problem_id) = {} THEN None
  ELSE Some(files[<<Tiers[First(FoundIn(files, problem_id))], problem_id>>])

\* the directory update_problem writes to: the difficulty of the updated document
Target(problem_data, found) == problem_data.difficulty

\* for key, value in updates.items(): if key in problem_data: problem_data[key] = value
Merge(problem_data, updates) ==
  [key \in DOMAIN problem_data |->
     IF key \in DOMAIN updates THEN updates[key] ELSE problem_data[key]]

ReturnedDoc(op, problem) ==
  [op |-> op, kind |-> "return", doc |-> Some(problem), ok |-> TRUE, exc |-> ""]
ReturnedFlag(op, flag) ==
  [op |-> op, kind |-> "return", doc |-> None, ok |-> flag, exc |-> ""]
RaisedIn(op, exc) ==
  [op |-> op, kind |-> "raise", doc |-> None, ok |-> FALSE, exc |-> exc]

\* ProblemManager(): the directories problems/ and solutions/ exist and hold nothing
InitStore ==
  /\ problemDirs = {}
  /\ problemFiles = NoFiles
  /\ solutionFiles = NoFiles
  /\ templates \in TemplateDirs
  /\ result = NoResult
  /\ nops = 0
  /\ overwritten = {}
  /\ IdleFrame
  /\ IdleCalls
  /\ IdlePar
  /\ IdleTest
  /\ IdleRunner
  /\ IdleGen

\* ProblemManager.add_problem(title, difficulty, topics, description)
add_problem(title, difficulty, topics, description) ==
  LET problem_id == generate_id(title)
      problem == [id |-> problem_id, title |-> title, difficulty |-> LowerWord(difficulty),
                  topics |-> topics, description |-> description]
  IN /\ nops < MaxOps
     /\ nops' = nops + 1
     /\ problemDirs' = problemDirs \cup {LowerWord(difficulty)}
     /\ problemFiles' = WriteFile(problemFiles, <<LowerWord(difficulty), problem_id>>, problem)
     /\ solutionFiles' = create_solution_templates(solutionFiles, problem_id, problem)
     /\ overwritten' = overwritten \cup
          {<<lang, problem_id>> : lang \in {g \in DOMAIN templates :
                                              FileSolved(solutionFiles, <<g, problem_id>>)}}
     /\ result' = ReturnedDoc("add_problem", problem)
     /\ UNCHANGED templates
     /\ UNCHANGED notStore

\* ProblemManager.update_problem(problem_id, **updates)
update_problem(problem_id, updates) ==
  LET found == get_problem(problemFiles, problem_id)
  IN /\ nops < MaxOps
     /\ nops' = nops + 1
     /\ IF found = None
          THEN /\ result' = ReturnedFlag("update_problem", FALSE)
               /\ UNCHANGED problemFiles
          ELSE LET problem_data == Merge(found[1], updates)
                   dir == Target(problem_data, found[1])
               IN IF dir \in problemDirs
                    THEN /\ problemFiles' = WriteFile(problemFiles, <<dir, problem_id>>, problem_data)
                         /\ result' = ReturnedFlag("update_problem", TRUE)
                    ELSE /\ result' = RaisedIn("update_problem", "FileNotFoundError")
                         /\ UNCHANGED problemFiles
     /\ UNCHANGED <<problemDirs, solutionFiles, templates, overwritten>>
     /\ UNCHANGED notStore

\* ProblemManager.delete_problem(problem_id)
delete_problem(problem_id) ==
  LET found == get_problem(problemFiles, problem_id)
  IN /\ nops < MaxOps
     /\ nops' = nops + 1
     /\ IF found = None
          THEN /\ result' = ReturnedFlag("delete_problem", FALSE)
               /\ UNCHANGED <<problemFiles, solutionFiles>>
          ELSE IF Exists(problemFiles, <<found[1].difficulty, problem_id>>)
            THEN /\ problemFiles' = Unlink(problemFiles, {<<found[1].difficulty, problem_id>>})
                 /\ solutionFiles' = Unlink(solutionFiles, {<<lang, problem_id>> : lang \in Languages})
                 /\ result' = ReturnedFlag("delete_problem", TRUE)
            ELSE /\ result' = RaisedIn("delete_problem", "FileNotFoundError")
                 /\ UNCHANGED <<problemFiles, solutionFiles>>
     /\ UNCHANGED <<problemDirs, templates, overwritten>>
     /\ UNCHANGED notStore

\* the keyword arguments update_problem is given
UpdateKeys == {"title", "difficulty", "id", "solved"}
\* the sets of keywords passed together: any of the document's keys, or a key no document has
UpdateKeySets == (SUBSET (UpdateKeys \ {"solved"})) \cup {{"solved"}}
\* the title an update renames a problem to: "a--b!"
UpdateTitles == { <<"a", "-", "-", "b", "!">> }
Kwargs(keys, title, difficulty, id) ==
  [key \in keys |-> CASE key = "title" -> title
                      [] key = "difficulty" -> difficulty
                      [] key = "id" -> id
                      [] OTHER -> "yes"]

AddProblem ==
  \E title \in Titles : \E difficulty \in Difficulties :
    \E topics \in TopicLists : \E description \in Descriptions :
      add_problem(title, difficulty, topics, description)

\* the values a keyword is given, one placeholder when it is not passed
ValuesFor(key, keys, values) == IF key \in keys THEN values ELSE {CHOOSE v \in values : TRUE}

UpdateProblem ==
  \E problem_id \in Ids : \E keys \in UpdateKeySets :
    \E title \in ValuesFor("title", keys, UpdateTitles) :
      \E difficulty \in ValuesFor("difficulty", keys, TierSet) :
        \E id \in ValuesFor("id", keys, Ids) :
          update_problem(problem_id, Kwargs(keys, title, difficulty, id))

DeleteProblem == \E problem_id \in Ids : delete_problem(problem_id)

\* ProblemManager.list_problems(): the documents of the three tier directories
list_problems(files) == {q \in DOMAIN files : q[1] \in TierSet}

\* the counters get_stats starts from
ZeroStats ==
  [total_problems |-> 0,
   by_difficulty |-> [d \in TierSet |-> 0],
   by_topic |-> [topic \in {} |-> [total |-> 0, solved |-> 0]],
   solved |-> [d \in TierSet \cup {"total"} |-> 0],
   unsolved |-> [d \in TierSet \cup {"total"} |-> 0],
   solve_rate |-> <<0, 1>>]

\* by_topic[topic][field] += 1, the entry made first when the topic is new
BumpTopic(by_topic, topic, field) ==
  [g \in DOMAIN by_topic \cup {topic} |->
     LET old == IF g \in DOMAIN by_topic THEN by_topic[g] ELSE [total |-> 0, solved |-> 0]
     IN IF g = topic THEN [old EXCEPT ![field] = @ + 1] ELSE old]

\* for topic in problem['topics']: by_topic[topic][field] += 1
RECURSIVE BumpTopics(_, _, _)
BumpTopics(by_topic, topics, field) ==
  IF topics = <<>> THEN by_topic
  ELSE BumpTopics(BumpTopic(by_topic, Head(topics), field), Tail(topics), field)

\* a problem that is not solved is counted nowhere
CountProblem_noelse(stats, problem, solved) ==
  [stats EXCEPT
     !.by_difficulty[problem.difficulty] = @ + 1,
     !.by_topic = IF solved
                    THEN BumpTopics(BumpTopics(@, problem.topics, "total"), problem.topics, "solved")
                    ELSE BumpTopics(@, problem.topics, "total"),
     !.solved["total"] = IF solved THEN @ + 1 ELSE @,
     !.solved[problem.difficulty] = IF solved THEN @ + 1 ELSE @]

\* the body of the loop of get_stats for one problem
CountProblem(stats, problem, solved) ==
  [stats EXCEPT
     !.by_difficulty[problem.difficulty] = @ + 1,
     !.by_topic = IF solved
                    THEN BumpTopics(BumpTopics(@, problem.topics, "total"), problem.topics, "solved")
                    ELSE BumpTopics(@, problem.topics, "total"),
     !.solved["total"] = IF solved THEN @ + 1 ELSE @,
     !.solved[problem.difficulty] = IF solved THEN @ + 1 ELSE @,
     !.unsolved["total"] = IF solved THEN @ ELSE @ + 1,
     !.unsolved[problem.difficulty] = IF solved THEN @ ELSE @ + 1]

\* for problem in all_problems: ...
RECURSIVE CountAll(_, _, _, _)
CountAll(stats, files, solutions, paths) ==
  IF paths = {} THEN stats
  ELSE LET q == CHOOSE path \in paths : TRUE
       IN CountAll(CountProblem(stats, files[q], is_problem_solved(solutions, files[q].id)),
                   files, solutions, paths \ {q})

\* solved.total / total_problems * 100, as a fraction
SolveRate(stats) ==
  IF stats.total_problems > 0
    THEN <<stats.solved["total"] * 100, stats.total_problems>>
    ELSE <<0, 1>>

\* ProblemManager.get_stats(), when every listed document has a tier as its difficulty
get_stats(files, solutions) ==
  LET all_problems == list_problems(files)
      counted == CountAll([ZeroStats EXCEPT !.total_problems = Cardinality(all_problems)],
                          files, solutions, all_problems)
  IN [counted EXCEPT !.solve_rate = SolveRate(counted)]

\* ProblemManager.get_stats(): by_difficulty[difficulty] raises KeyError on any other difficulty
GetStats ==
  /\ nops < MaxOps
  /\ nops' = nops + 1
  /\ IF \A q \in list_problems(problemFiles) : problemFiles[q].difficulty \in TierSet
       THEN result' = ReturnedDoc("get_stats", get_stats(problemFiles, solutionFiles))
       ELSE result' = RaisedIn("get_stats", "KeyError")
  /\ UNCHANGED <<problemDirs, problemFiles, solutionFiles, templates, overwritten>>
  /\ UNCHANGED notStore

\* the user replaces the text of an existing solution file by an implementation
WriteSolution ==
  \E path \in DOMAIN solutionFiles :
    /\ nops < MaxOps
    /\ nops' = nops + 1
    /\ solutionFiles' = WriteFile(solutionFiles, path, SolutionText(solutionFiles[path]))
    /\ result' = NoResult
    /\ UNCHANGED <<problemDirs, problemFiles, templates, overwritten>>
    /\ UNCHANGED notStore

NextStore == AddProblem \/ UpdateProblem \/ DeleteProblem \/ WriteSolution

SpecStore == InitStore /\ [][NextStore]_vars

\* the documents of the stores get_stats is run on: any id, any difficulty (a tier or
\* not), one or two topics
StatDocs ==
  [id : Ids, title : UpdateTitles, difficulty : TierSet \cup {"expert"},
   topics : {<<"dp">>, <<"dp", "graph">>}, description : Descriptions]

\* partial functions from the paths to the values, at most most of them defined
FilesOver(paths, values, most) ==
  UNION {[P -> values] : P \in {Q \in SUBSET paths : Cardinality(Q) <= most}}

\* the text of a Python solution file: the template as written, or an implementation
StatTexts ==
  {TemplateText(PythonTemplateWords, doc) : doc \in StatDocs}
    \cup {SolutionText(TemplateText(PythonTemplateWords, doc)) : doc \in StatDocs}

\* a store on disk: up to MaxDocs documents in the tier directories, and Python solution files
InitStats ==
  /\ problemFiles \in FilesOver(TierSet \X Ids, StatDocs, MaxDocs)
  /\ problemDirs = {q[1] : q \in DOMAIN problemFiles}
  /\ solutionFiles \in FilesOver({"python"} \X Ids, StatTexts, Cardinality(Ids))
  /\ templates = NoFiles
  /\ result = NoResult
  /\ nops = 0
  /\ overwritten = {}
  /\ IdleFrame
  /\ IdleCalls
  /\ IdlePar
  /\ IdleTest
  /\ IdleRunner
  /\ IdleGen

NextStats == GetStats

SpecStats == InitStats /\ [][NextStats]_vars

(* ---------------------- tools/test_runner.py: TestRunner ---------------- *)

\* TestResult(), as a value
NewResult == [passed |-> 0, failed |-> 0, errors |-> 0, total |-> 0, details |-> <<>>]

\* result.add_result(name, status, message), on the value
Added(r, name, status, message) ==
  [passed |-> Incr(r.passed, status, "passed"),
   failed |-> Incr(r.failed, status, "failed"),
   errors |-> Incr(r.errors, status, "error"),
   total |-> r.total + 1,
   details |-> Append(r.details, [name |-> name, status |-> status,
                                  message |-> message, time |-> 0])]

\* every solution file is looked for under solutions/python
SolutionPath_python(language, problem_id) == <<"python", problem_id>>

\* solutions/python/<id>.py for Python, solutions/react-ts/<id>.ts otherwise
SolutionPath(language, problem_id) ==
  IF language = "python" THEN <<"python", problem_id>> ELSE <<"react-ts", problem_id>>

\* the lines of pytest's output: whether the line holds '::', and which of the words
\* PASSED, FAILED, ERROR it holds
PytestLines ==
  { [name |-> "t.py::test_a", sep |-> TRUE, words |-> {"PASSED"}],
    [name |-> "t.py::test_b", sep |-> TRUE, words |-> {"FAILED"}],
    [name |-> "t.py::test_c", sep |-> TRUE, words |-> {"ERROR"}],
    [name |-> "FAILED", sep |-> TRUE, words |-> {"PASSED", "FAILED"}],
    [name |-> "collected", sep |-> FALSE, words |-> {"PASSED"}],
    [name |-> "t.py::test_d", sep |-> TRUE, words |-> {}] }

\* the status _parse_pytest_output reads from a line, "" when it reads none
LineStatus(line) ==
  IF ~line.sep THEN ""
  ELSE IF "PASSED" \in line.words THEN "passed"
  ELSE IF "FAILED" \in line.words THEN "failed"
  ELSE IF "ERROR" \in line.words THEN "error"
  ELSE ""

\* for line in lines: ...
RECURSIVE ParseLines(_, _)
ParseLines(r, lines) ==
  IF lines = <<>> THEN r
  ELSE ParseLines(IF LineStatus(Head(lines)) = "" THEN r
                  ELSE Added(r, Head(lines).name, LineStatus(Head(lines)), ""),
                  Tail(lines))

\* TestRunner._parse_pytest_output(stdout, stderr, returncode)
parse_pytest_output(lines, returncode) ==
  LET r == ParseLines(NewResult, lines)
  IN IF r.total = 0
       THEN IF returncode = 0 THEN Added(r, "pytest", "passed", "All tests passed")
                              ELSE Added(r, "pytest", "failed", "output")
       ELSE r

\* the return of a TestResult to the caller
ReturnResult(r) ==
  /\ passed' = r.passed /\ failed' = r.failed /\ errors' = r.errors /\ total' = r.total
  /\ details' = r.details

\* the texts a solution file may hold, as the searched words found in them: the rendered
\* Python template, a Python implementation, an empty file, a TypeScript implementation
RunnerTexts ==
  { [text |-> "template", title |-> <<>>,
     words |-> {"TODO:", "pass", "def ", "def solve(", "solve(", "def test_", "class Test"}],
    [text |-> "solution", title |-> <<>>,
     words |-> {"def ", "def solve(", "solve(", "def test_", "class Test"}],
    [text |-> "empty", title |-> <<>>, words |-> {}],
    [text |-> "solution", title |-> <<>>, words |-> {"solve(", "testCases"}] }

\* placeholders = [...], in the order validate_solution looks for them
Placeholders == <<"{problem_title}", "{difficulty}", "{topics}", "TODO:", "pass", "null">>

\* the issues of the placeholders from position m on
RECURSIVE PlaceholderIssues(_, _)
PlaceholderIssues(words, m) ==
  IF m > Len(Placeholders) THEN <<>>
  ELSE (IF Placeholders[m] \in words
          THEN << <<"Template placeholder found", Placeholders[m]>> >>
          ELSE <<>>)
       \o PlaceholderIssues(words, m + 1)

\* the issues validate_solution finds in a file it could read
Issues(language, words) ==
  PlaceholderIssues(words, 1)
    \o (IF language = "python"
          THEN (IF "def solve(" \notin words /\ "def " \notin words
                  THEN << <<"No solution method found", "">> >> ELSE <<>>)
          ELSE (IF "solve(" \notin words
                  THEN << <<"No solve method found", "">> >> ELSE <<>>))
    \o (IF language = "python"
          THEN (IF "def test_" \notin words /\ "class Test" \notin words
                  THEN << <<"No test cases found", "">> >> ELSE <<>>)
          ELSE (IF "testCases" \notin words
                  THEN << <<"No test cases found", "">> >> ELSE <<>>))

\* TestRunner(): a solutions directory with any of the files
InitRunner ==
  /\ solutionFiles \in FilesOver(Languages \X Ids, RunnerTexts, Cardinality(Languages \X Ids))
  /\ problemDirs = {}
  /\ problemFiles = NoFiles
  /\ templates = NoFiles
  /\ result = NoResult
  /\ nops = 0
  /\ overwritten = {}
  /\ IdleRunner
  /\ IdleGen
  /\ IdleFrame
  /\ IdleCalls
  /\ IdlePar
  /\ IdleTest

\* what a run of tests leaves alone
RunnerFrame == UNCHANGED <<validation, notRunnerTest>>

\* TestRunner.run_python_tests(problem_id)
run_python_tests(problem_id) ==
  /\ call = NoCall
  /\ call' = [op |-> "run_python_tests", problem_id |-> problem_id, language |-> "python"]
  /\ IF ~Exists(solutionFiles, SolutionPath("python", problem_id))
       THEN /\ ReturnResult(Added(NewResult, problem_id, "error", "Solution file not found"))
            /\ spawned' = 0
       ELSE /\ spawned' = 1
            /\ \/ \E lines \in SeqsOver(PytestLines, 0, MaxLines) : \E returncode \in {0, 1} :
                    ReturnResult(parse_pytest_output(lines, returncode))
               \/ ReturnResult(Added(NewResult, problem_id, "error", "Test execution timed out"))
               \/ \E status \in {"passed", "error"} :
                    ReturnResult(Added(NewResult, problem_id, status, "run directly"))
  /\ RunnerFrame

\* the outcomes of _run_jest_tests: exit status 0, another exit status, an exception
JestStatuses == {"passed", "failed", "error"}

\* TestRunner.run_typescript_tests(problem_id)
run_typescript_tests(problem_id) ==
  /\ call = NoCall
  /\ call' = [op |-> "run_typescript_tests", problem_id |-> problem_id, language |-> "react-ts"]
  /\ IF ~Exists(solutionFiles, SolutionPath("react-ts", problem_id))
       THEN /\ ReturnResult(Added(NewResult, problem_id, "error", "Solution file not found"))
            /\ spawned' = 0
       ELSE \/ \E status \in JestStatuses :
                 /\ spawned' = 2
                 /\ ReturnResult(Added(NewResult, problem_id, status, "jest"))
            \/ /\ spawned' = 2
               /\ \E message \in {"ts-node not available", "Execution timed out", "exception"} :
                    ReturnResult(Added(NewResult, problem_id, "error", message))
            \/ /\ spawned' = 3
               /\ \E status \in Statuses :
                    ReturnResult(Added(NewResult, problem_id, status, "ts-node"))
  /\ RunnerFrame

\* TestRunner.validate_solution(problem_id, language)
validate_solution(problem_id, language) ==
  /\ call = NoCall
  /\ call' = [op |-> "validate_solution", problem_id |-> problem_id, language |-> language]
  /\ spawned' = 0
  /\ LET path == SolutionPath(language, problem_id)
     IN IF ~Exists(solutionFiles, path)
          THEN validation' = [ok |-> FALSE,
                              issues |-> << <<"Solution file does not exist", path>> >>]
          ELSE \/ validation' = [ok |-> Issues(language, solutionFiles[path].words) = <<>>,
                                 issues |-> Issues(language, solutionFiles[path].words)]
               \/ validation' = [ok |-> FALSE,
                                 issues |-> << <<"Error reading solution file", "">> >>]
  /\ UNCHANGED notRunner

NextRunner ==
  \E problem_id \in Ids :
    \/ run_python_tests(problem_id)
    \/ run_typescript_tests(problem_id)
    \/ \E language \in {"python", "react-ts", "typescript"} :
         validate_solution(problem_id, language)

SpecRunner == InitRunner /\ [][NextRunner]_vars

(* -------------------- tools/claude_helper.py: ClaudeHelper -------------- *)

\* required_fields
RequiredFields == {"title", "difficulty", "topics", "description"}
\* the keys generate_problem gives a default
OptionalFields == {"examples", "constraints", "hints", "followUp", "testCases"}
GenKeys == RequiredFields \cup OptionalFields \cup {"notes"}

\* the body of an answer with status 200, by what result['choices'][0]['message']['content']
\* meets in it
Bodies ==
  {"not_json", "list", "no_choices", "choices_null", "choices_empty",
   "no_message", "message_null", "no_content"}

\* the content of the message: JSON null, or a string that is empty, is no JSON, or is the
\* JSON text of null, a number, a string, a list or an object
Contents == {"null", "empty", "not_json", "json_null", "json_number"}

ReplyOf(transport, body, content, keys) ==
  [transport |-> transport, body |-> body, content |-> content, keys |-> keys]

\* what the API may answer: no connection, an error status, or a body
Replies ==
  {ReplyOf(transport, "none", "none", {}) : transport \in {"connection_error", "http_error"}}
    \cup {ReplyOf("ok", body, "none", {}) : body \in Bodies}
    \cup {ReplyOf("ok", "content", content, {}) : content \in Contents}
    \cup {ReplyOf("ok", "content", content, keys) :
            content \in {"json_string", "json_list"}, keys \in {{}, RequiredFields}}
    \cup {ReplyOf("ok", "content", "json_dict", keys) : keys \in SUBSET GenKeys}

\* a string _make_request returns, as the reply content it is; '' is the empty content
TextOf(content, keys) == [content |-> content, keys |-> keys]
EmptyText == TextOf("empty", {})

RequestReturned(text) == [kind |-> "return", value |-> text, exc |-> ""]
RequestRaised(exc) == [kind |-> "raise", value |-> EmptyText, exc |-> exc]

\* ClaudeHelper._make_request(messages, temperature): RequestException, KeyError and
\* IndexError are caught and '' is returned; any other exception leaves the method.
\* caught: the JSON error of response.json() is a RequestException in the installed requests
make_request(r, caught) ==
  CASE r.transport # "ok" -> RequestReturned(EmptyText)
    [] r.body = "not_json" ->
         IF caught THEN RequestReturned(EmptyText) ELSE RequestRaised("ValueError")
    [] r.body \in {"list", "choices_null", "message_null"} -> RequestRaised("TypeError")
    [] r.body \in {"no_choices", "no_message", "no_content"} -> RequestReturned(EmptyText)
    [] r.body = "choices_empty" -> RequestReturned(EmptyText)
    [] OTHER -> RequestReturned(TextOf(r.content, r.keys))

GenReturned(d) == [kind |-> "return", value |-> d, exc |-> ""]
GenRaised(exc) == [kind |-> "raise", value |-> EmptyDict, exc |-> exc]

\* the exception the statements from response.strip() to the setdefault calls end with,
\* "" when they end with none
ParseError(text) ==
  CASE text.content = "null" -> "AttributeError"
    [] text.content \in {"empty", "not_json"} -> "JSONDecodeError"
    [] text.content \in {"json_null", "json_number"} -> "TypeError"
    [] text.content \in {"json_string", "json_list"} ->
         IF RequiredFields \subseteq text.keys THEN "AttributeError" ELSE "ValueError"
    [] OTHER -> IF RequiredFields \subseteq text.keys THEN "" ELSE "ValueError"

\* problem_data after the setdefault calls
WithDefaults(keys) ==
  [key \in keys \cup OptionalFields |-> IF key \in keys THEN "given" ELSE "default"]

\* ClaudeHelper.generate_problem(...): 'import json' in the try block makes json a local
\* name, bound only once the import has run; an exception that leaves _make_request reaches
\* 'except json.JSONDecodeError' before that
generate_problem(r, caught) ==
  LET response == make_request(r, caught)
  IN IF response.kind = "raise" THEN GenRaised("UnboundLocalError")
     ELSE IF ParseError(response.value) # "" THEN GenReturned(EmptyDict)
     ELSE GenReturned(WithDefaults(response.value.keys))

\* ClaudeHelper(), and the answer the API will give
InitGen ==
  /\ reply \in Replies
  /\ generated = NotGenerated
  /\ IdleFrame
  /\ IdleCalls
  /\ IdlePar
  /\ IdleTest
  /\ IdleStore
  /\ IdleRunner

GenerateProblem ==
  /\ generated.kind = "none"
  /\ \E caught \in BOOLEAN : generated' = generate_problem(reply, caught)
  /\ UNCHANGED <<reply, notGen>>

NextGen == GenerateProblem

SpecGen == InitGen /\ [][NextGen]_vars

(* ------------------------------ properties ----------------------------- *)

Done == pc = "done"
Called(g) == ret[g].kind # "none"
ValidInput(seq) == \A p \in 1..Len(seq) : seq[p] \in Alphabet
HasLowercase(seq) == \E p \in 1..Len(seq) : seq[p] \in Lowercase

\* the complementarity relation of the problem statement: A-U and G-C
Complementary(x, y) == {x, y} \in {{"A", "U"}, {"G", "C"}}

\* the position pairs (a, b), a < b, whose symbols are complementary
CandidatePairs(seq) ==
  {p \in (0..(Len(seq) - 1)) \X (0..(Len(seq) - 1)) :
     p[1] < p[2] /\ Complementary(seq[p[1] + 1], seq[p[2] + 1])}

\* every position in at most one pair, and no two pairs cross
ValidPairingSet(P) ==
  \A p, q \in P :
    /\ p # q => {p[1], p[2]} \cap {q[1], q[2]} = {}
    /\ ~(p[1] < q[1] /\ q[1] < p[2] /\ p[2] < q[2])

MaxPairing(seq) ==
  LET sizes == {Cardinality(P) : P \in {Q \in SUBSET CandidatePairs(seq) : ValidPairingSet(Q)}}
  IN CHOOSE m \in sizes : \A o \in sizes : o <= m

C2_ForeignSymbolRejected ==
  (Done /\ ~ValidInput(sequence)) => outcome = Raised("InvalidInput")

\* C3: an invocation on the empty sequence returns 0 and does not raise.
C3_EmptyScoresZero ==
  (Done /\ Len(sequence) = 0) => outcome = Returned(0)

\* C4: on an input with lowercase letters the invocation either raises or
\* returns what the invocation on the upper-cased input returns.
C4_OneCasePolicy ==
  (HasLowercase(s) /\ Called("s") /\ Called("upper"))
    => (ret["s"].kind = "raise" \/ ret["s"] = ret["upper"])

\* C5: on a non-empty sequence over {A,U,G,C} of length n the invocation
\* returns a natural number that is at most floor(n / 2).
C5_ScoreAtMostHalf ==
  (Done /\ ValidInput(sequence) /\ n >= 1)
    => /\ outcome.kind = "return"
       /\ outcome.value \in Nat
       /\ outcome.value <= n \div 2

\* odd length: the bound floor(3 / 2) = 1 is met
C5_Witness ==
  Done /\ ValidInput(sequence) /\ n = 3 /\ outcome = Returned(1)

\* C6: the literal scenarios: AC -> 0, AUUGC -> 2, AAUU -> 2, AUGCAU -> 3,
\* GGGGCCCC -> 4, AUGU -> 1, GCAUGCAU -> 4.
C6_LiteralScenarios ==
  Done =>
    /\ sequence = <<"A","C">> => outcome = Returned(0)
    /\ sequence = <<"A","U","U","G","C">> => outcome = Returned(2)
    /\ sequence = <<"A","A","U","U">> => outcome = Returned(2)
    /\ sequence = <<"A","U","G","C","A","U">> => outcome = Returned(3)
    /\ sequence = <<"G","G","G","G","C","C","C","C">> => outcome = Returned(4)
    /\ sequence = <<"A","U","G","U">> => outcome = Returned(1)
    /\ sequence = <<"G","C","A","U","G","C","A","U">> => outcome = Returned(4)

C6_Witness ==
  Done /\ sequence = <<"A","U","G","U">> /\ outcome = Returned(1)

C9_PairsExactlyComplementary ==
  [][pc = "if_pair" =>
       ((pc' = "pair") <=> Complementary(sequence[i + 1], sequence[k + 1]))]_vars

C9_Witness ==
  pc = "pair" /\ sequence[i + 1] = "U" /\ sequence[k + 1] = "A"

\* C10: appending one symbol of {A,U,G,C} to a non-empty sequence over
\* {A,U,G,C} never lowers the score and raises it by at most 1.
C10_PrefixExtension ==
  (/\ Len(s) >= 1 /\ Len(t) = 1 /\ ValidInput(s) /\ ValidInput(t)
   /\ Called("s") /\ Called("st"))
    => /\ ret["s"].kind = "return" /\ ret["st"].kind = "return"
       /\ ret["s"].value <= ret["st"].value
       /\ ret["st"].value <= ret["s"].value + 1

\* GAU + C -> 2 from 1: the appended symbol pairs around an inner pair
C10_Witness ==
  /\ s = <<"G","A","U">> /\ t = <<"C">>
  /\ ret["s"] = Returned(1) /\ ret["st"] = Returned(2)

\* C13: on a sequence of length 1 the fill loop runs no iteration, nothing is
\* written, and the untouched cell dp[0][0] = 0 is returned.
C13_SingleSymbolScoresZero ==
  (Len(sequence) = 1 /\ pc # "idle") =>
    /\ pc \in {"start", "for_l", "return", "done"}
    /\ writes = {} /\ reads = {}
    /\ pc # "start" => (n = 1 /\ dp[0][0] = 0)
    /\ Done => outcome = Returned(0)

C13_Witness ==
  Done /\ Len(sequence) = 1 /\ sequence[1] = "X" /\ outcome = Returned(0)

\* C14: an invocation on a non-empty sequence over {A,U,G,C} ends, and it ends
\* by returning a score, not by raising.
C14_TotalOnValidInput ==
  (pc = "start" /\ ValidInput(sequence) /\ Len(sequence) >= 1)
    ~> (Done /\ outcome.kind = "return")

C14_Witness ==
  Done /\ ValidInput(sequence) /\ n = 5 /\ outcome.kind = "return" /\ l = 6

\* best(a, b) of the recurrence: 0 on an empty or inverted range
Best(d, a, b) == IF a > b THEN 0 ELSE d[a][b]

\* max(dp[a+1][b], max over the partners c of a in (a, b] of
\*     1 + best(a+1, c-1) + best(c+1, b))
Recurrence(d, seq, a, b) ==
  LET options == {d[a + 1][b]} \cup
                 {1 + Best(d, a + 1, c - 1) + Best(d, c + 1, b) :
                    c \in {e \in (a + 1)..b : can_pair(seq[a + 1], seq[e + 1])}}
  IN CHOOSE m \in options : \A o \in options : o <= m

UpperCells(len) == {c \in (0..(len - 1)) \X (0..(len - 1)) : c[1] < c[2]}

\* C18: once the k loop of a cell (a, b), a < b, has ended, dp[a][b] has the
\* value of the recurrence; when the fill ends, that is every cell with a < b.
C18_CellFollowsRecurrence ==
  /\ \A c \in finished : dp[c[1]][c[2]] = Recurrence(dp, sequence, c[1], c[2])
  /\ (pc = "return" /\ n >= 1) => finished = UpperCells(n)

\* in UGAUC leaving U unpaired (2) beats pairing it with the A (1)
C18_Witness ==
  /\ sequence = <<"U", "G", "A", "U", "C">>
  /\ <<0, 4>> \in finished /\ dp[0][4] = 2 /\ dp[1][4] = 2

\* the cells the next step reads from shorter intervals, the cell it writes,
\* and the interval it works on
ReadNow ==
  IF pc = "for_i" /\ i <= n - l THEN {UnpairedCell(i, EndOf(i, l))}
  ELSE IF pc = "pair" THEN Range(PairCells(i, j, k))
  ELSE {}

WriteNow ==
  IF pc = "for_i" /\ i <= n - l THEN {<<i, EndOf(i, l)>>}
  ELSE IF pc = "pair" THEN {<<i, j>>}
  ELSE {}

IntervalLen(c) == c[2] - c[1] + 1

\* C19: every cell a step reads for dp[i][j] lies in a strictly shorter
\* interval whose k loop has ended (a one-position interval has none), and no
\* step writes a cell that was read before.
C19_ShorterIntervalsFirst ==
  /\ \A c \in ReadNow :
       /\ \A w \in WriteNow : IntervalLen(c) < IntervalLen(w)
       /\ IntervalLen(c) >= 1
       /\ c[1] < c[2] => c \in finished
  /\ WriteNow \cap reads = {}

C19_Witness ==
  /\ pc = "pair"
  /\ \E c \in Range(PairCells(i, j, k)) : c[1] < c[2] /\ c \in finished
  /\ UnpairedCell(i, j) \in reads

\* C20: on a non-empty input every index the fill uses on the table is in
\* 0..n-1, only cells with a < b are written, and the cells with a >= b stay 0.
C20_TableAccessDiscipline ==
  (n >= 1 /\ pc \notin {"start", "idle"}) =>
    /\ \A c \in reads \cup writes : c[1] \in 0..(n - 1) /\ c[2] \in 0..(n - 1)
    /\ \A c \in writes : c[1] < c[2]
    /\ \A a, b \in 0..(n - 1) : a >= b => dp[a][b] = 0

C20_Witness ==
  Done /\ n = 4 /\ <<0, 3>> \in writes /\ <<3, 3>> \in reads /\ <<1, 1>> \in reads

\* C11: the score depends on the order of the symbols: GAUC and AGUC are
\* permutations of each other (one exchange of two positions) and the
\* invocations on them return different scores.
C11_OrderChangesScore ==
  (/\ s = <<"G", "A", "U", "C">> /\ t = <<"A", "G", "U", "C">>
   /\ Called("s") /\ Called("t"))
    => /\ ret["s"].kind = "return" /\ ret["t"].kind = "return"
       /\ ret["s"].value # ret["t"].value

\* nested G(AU)C scores 2, crossing A-U / G-C in AGUC scores 1
C11_Witness ==
  /\ s = <<"G", "A", "U", "C">> /\ t = Swap(s, 1, 2)
  /\ ret["s"] = Returned(2) /\ ret["t"] = Returned(1)

\* C15: with the steps of two invocations interleaved in any order, the two
\* invocations work on different table objects, a step of one invocation changes
\* neither the other's locals nor the other's table, and each invocation ends
\* with the outcome it has when run alone.
C15_TablesApart ==
  /\ \A c \in Callers : \A o \in Callers \ {c} :
       (fr[c].pc \notin {"start", "idle"} /\ fr[o].pc \notin {"start", "idle"})
         => fr[c].dp # fr[o].dp
  /\ \A c \in Callers :
       fr[c].pc = "done" => fr[c].outcome = maxRNAFoldingScore(fr[c].sequence)

C15_NoInterference ==
  /\ [][\A c \in Callers : \A o \in Callers \ {c} :
          (fr'[c] # fr[c] /\ fr[c].pc # "start")
            => /\ fr'[o] = fr[o]
               /\ fr[o].pc \notin {"start", "idle"} => heap'[fr[o].dp] = heap[fr[o].dp]]_vars
  /\ []C15_TablesApart

\* caller 1 has finished AAU while caller 2, on UA, is between its two writes
C15_Witness ==
  /\ fr[1].sequence = <<"A", "A", "U">> /\ fr[1].outcome = Returned(1)
  /\ fr[2].sequence = <<"U", "A">> /\ fr[2].pc = "pair"

\* the statuses of the detail records so far
DetailStatuses == {details[m].status : m \in 1..Len(details)}

\* the number of detail records with the given status
CountOf(status) == Cardinality({m \in 1..Len(details) : details[m].status = status})

\* C17 (state part): while every add_result call so far had a status among passed, failed,
\* error, total = passed + failed + errors = the number of detail records, and each counter
\* is the number of details with its status.
C17_CountsAgree ==
  DetailStatuses \subseteq Statuses
    => /\ total = passed + failed + errors
       /\ total = Len(details)
       /\ passed = CountOf("passed") /\ failed = CountOf("failed") /\ errors = CountOf("error")

\* C17: TestResult reports consistent counts: after add_result calls whose statuses are among
\* passed, failed, error, total = passed + failed + errors = number of detail records, and
\* each such call increases exactly one of the three counters, by one, along with total.
C17_ConsistentCounts ==
  /\ []C17_CountsAgree
  /\ [][(Len(details') = Len(details) + 1 /\ details'[Len(details')].status \in Statuses)
          => /\ (passed' - passed) + (failed' - failed) + (errors' - errors) = 1
             /\ passed' - passed \in {0, 1}
             /\ failed' - failed \in {0, 1}
             /\ errors' - errors \in {0, 1}
             /\ (passed' = passed + 1) = (details'[Len(details')].status = "passed")
             /\ (failed' = failed + 1) = (details'[Len(details')].status = "failed")
             /\ (errors' = errors + 1) = (details'[Len(details')].status = "error")
             /\ total' = total + 1]_vars

\* three calls, one of each status, were counted
C17_Witness ==
  /\ Len(details) = 3
  /\ DetailStatuses = Statuses
  /\ passed = 1 /\ failed = 1 /\ errors = 1 /\ total = 3

\* the stored documents filed under the given id in the three tiers
DocumentsOf(problem_id) == {q \in DOMAIN problemFiles : q[1] \in TierSet /\ q[2] = problem_id}

\* C16: after any sequence of add_problem, update_problem and delete_problem calls from an
\* empty store, at most one stored problem document exists for any problem id across the
\* easy, medium and hard tiers.
C16_OneDocumentPerId == \A problem_id \in Ids : Cardinality(DocumentsOf(problem_id)) <= 1

\* the fill has ended: every cell has its final value
TableFinished == pc \in {"return", "done"} /\ outcome.kind # "raise"

\* C21: in the finished table, for n >= 2 and every 0 <= a < b <= n-1, the score does not
\* decrease when the interval grows by one position at either end, and grows by at most one:
\* dp[a+1][b] <= dp[a][b] <= dp[a+1][b] + 1 and dp[a][b-1] <= dp[a][b] <= dp[a][b-1] + 1.
C21_OneStepMonotone ==
  (TableFinished /\ n >= 2)
    => \A c \in UpperCells(n) :
         /\ dp[c[1] + 1][c[2]] <= dp[c[1]][c[2]]
         /\ dp[c[1]][c[2]] <= dp[c[1] + 1][c[2]] + 1
         /\ dp[c[1]][c[2] - 1] <= dp[c[1]][c[2]]
         /\ dp[c[1]][c[2]] <= dp[c[1]][c[2] - 1] + 1

\* in GAUCC the score grows from GAUC to GAUCC by nothing and from AUCC to GAUCC by one
C21_Witness ==
  /\ TableFinished
  /\ sequence = <<"G", "A", "U", "C", "C">>
  /\ dp[0][4] = 2 /\ dp[0][3] = 2 /\ dp[1][4] = 1

\* C22: for every sequence s over {A,U,G,C} of length >= 1, the invocation on the reversal
\* of s returns what the invocation on s returns.
C22_ReversalInvariant ==
  (ValidInput(s) /\ Len(s) >= 1 /\ t = Reverse(s) /\ Called("s") /\ Called("t"))
    => /\ ret["s"].kind = "return"
       /\ ret["t"] = ret["s"]

\* AUGCC and its reversal CCGUA both score 2, through different cells of the table
C22_Witness ==
  /\ s = <<"A", "U", "G", "C", "C">> /\ t = <<"C", "C", "G", "U", "A">>
  /\ ret["s"] = Returned(2) /\ ret["t"] = Returned(2)

\* C23: right after add_problem(title, difficulty, topics, description) returns,
\* get_problem(_generate_id(title)) returns the document just written: the given title,
\* topics and description, and the lower-cased given difficulty.
C23_AddThenGet ==
  (result.op = "add_problem" /\ result.kind = "return")
    => get_problem(problemFiles, result.doc[1].id) = result.doc

\* no solution file of the given id, in either language
NoSolutionOf(files, problem_id) == \A lang \in Languages : ~Exists(files, <<lang, problem_id>>)

\* C24: delete_problem(id) returns False and leaves every problem and solution file unchanged
\* when get_problem(id) finds nothing; when it returns True, get_problem(id) afterwards
\* returns None and neither solutions/python/<id>.py nor solutions/react-ts/<id>.ts exists.
C24_DeleteRemoves ==
  [][\A problem_id \in Ids :
       delete_problem(problem_id)
         => /\ get_problem(problemFiles, problem_id) = None
                 => /\ result' = ReturnedFlag("delete_problem", FALSE)
                    /\ problemFiles' = problemFiles
                    /\ solutionFiles' = solutionFiles
            /\ result' = ReturnedFlag("delete_problem", TRUE)
                 => /\ get_problem(problemFiles', problem_id) = None
                    /\ NoSolutionOf(solutionFiles', problem_id)]_vars

\* C25: after any sequence of add_problem, update_problem (with any keyword updates, id and
\* difficulty included) and delete_problem calls from an empty store, every stored document's
\* id field equals the file name it is stored under and its difficulty field equals the tier
\* directory that holds it.
C25_StoreWellFormed ==
  \A q \in DOMAIN problemFiles :
    /\ problemFiles[q].id = q[2]
    /\ problemFiles[q].difficulty = q[1]

\* the sum of a counter over the three tiers
OverTiers(counter) == counter["easy"] + counter["medium"] + counter["hard"]

\* C26: on a store whose documents all have a tier as difficulty, get_stats returns counts
\* with total_problems = solved.total + unsolved.total = by_difficulty[easy] +
\* by_difficulty[medium] + by_difficulty[hard], for each tier t solved[t] + unsolved[t] =
\* by_difficulty[t], and for each topic solved <= total.
C26_StatsPartition ==
  (/\ result.op = "get_stats"
   /\ \A q \in DOMAIN problemFiles : problemFiles[q].difficulty \in TierSet)
    => /\ result.kind = "return"
       /\ LET stats == result.doc[1]
          IN /\ stats.total_problems = stats.solved["total"] + stats.unsolved["total"]
             /\ stats.total_problems = OverTiers(stats.by_difficulty)
             /\ \A d \in TierSet : stats.solved[d] + stats.unsolved[d] = stats.by_difficulty[d]
             /\ \A topic \in DOMAIN stats.by_topic :
                  stats.by_topic[topic].solved <= stats.by_topic[topic].total

\* two problems in two tiers, one of them solved, one topic shared
C26_Witness ==
  /\ result.op = "get_stats" /\ result.kind = "return"
  /\ LET stats == result.doc[1]
     IN /\ stats.total_problems = 2
        /\ stats.solved["total"] = 1 /\ stats.unsolved["total"] = 1
        /\ stats.by_difficulty["easy"] = 1 /\ stats.by_difficulty["hard"] = 1
        /\ DOMAIN stats.by_topic = {"dp", "graph"}
        /\ stats.by_topic["dp"] = [total |-> 2, solved |-> 1]
        /\ stats.by_topic["graph"] = [total |-> 1, solved |-> 0]

\* C27: add_problem does not check for an existing id: when the Python template exists it
\* writes solutions/python/<id>.py from the template whether or not the file exists, so a
\* Python solution that counted as solved is replaced by template text containing 'pass' and
\* the Python file no longer counts as solved.
C27_AddRewritesSolution ==
  /\ [][(result'.op = "add_problem" /\ nops' = nops + 1 /\ "python" \in DOMAIN templates)
          => LET problem == result'.doc[1]
                 path == <<"python", problem.id>>
             IN /\ Exists(solutionFiles', path)
                /\ solutionFiles'[path] = TemplateText(PythonTemplateWords, problem)
                /\ "pass" \in solutionFiles'[path].words
                /\ ~FileSolved(solutionFiles', path)]_vars
  /\ [](\A path \in overwritten :
          (path[1] = "python" /\ result.op = "add_problem" /\ result.doc[1].id = path[2])
            => ~FileSolved(solutionFiles, path))

\* the solved Python file of 'b' was replaced by the template when 'B ' was added again
C27_Witness ==
  /\ <<"python", <<"b">>>> \in overwritten
  /\ result.op = "add_problem" /\ result.doc[1].id = <<"b">>
  /\ solutionFiles[<<"python", <<"b">>>>].text = "template"
  /\ ~is_problem_solved(solutionFiles, <<"b">>)

\* the file the call looked for is not there
MissingFor(language) == ~Exists(solutionFiles, <<language, call.problem_id>>)

\* C28: when the solution file of problem_id does not exist, run_python_tests and
\* run_typescript_tests each return a TestResult with exactly one detail, of status 'error'
\* (total = 1, errors = 1, passed = failed = 0) and start no subprocess, and
\* validate_solution returns (False, [one message]).
C28_MissingFileIsOneError ==
  /\ ((call.op = "run_python_tests" /\ MissingFor("python"))
        \/ (call.op = "run_typescript_tests" /\ MissingFor("react-ts")))
       => /\ Len(details) = 1
          /\ details[1].status = "error"
          /\ details[1].name = call.problem_id
          /\ total = 1 /\ errors = 1 /\ passed = 0 /\ failed = 0
          /\ spawned = 0
  /\ ((call.op = "validate_solution" /\ call.language = "python" /\ MissingFor("python"))
        \/ (call.op = "validate_solution" /\ call.language # "python" /\ MissingFor("react-ts")))
       => /\ validation.ok = FALSE
          /\ Len(validation.issues) = 1

\* the TypeScript run of 'b' finds no b.ts although b.py exists
C28_Witness ==
  /\ call.op = "run_typescript_tests" /\ call.problem_id = <<"b">>
  /\ Exists(solutionFiles, <<"python", <<"b">>>>) /\ MissingFor("react-ts")
  /\ Len(details) = 1 /\ details[1].status = "error" /\ errors = 1 /\ total = 1
  /\ spawned = 0

\* the API request failed: _make_request has no content to return
RequestFailed == reply.transport # "ok" \/ reply.body # "content"
\* the content is not the text of a JSON value
NotJson == reply.content \in {"null", "empty", "not_json"}
\* the parsed value lacks one of title, difficulty, topics, description
LacksField == reply.content # "json_dict" \/ ~(RequiredFields \subseteq reply.keys)

\* C29: generate_problem never raises and never returns a partial record: it returns the
\* empty dict whenever the API request fails, the response is not valid JSON or the parsed
\* value lacks one of title, difficulty, topics, description; otherwise it returns a dict
\* with those four fields and the keys examples, constraints, hints, followUp and testCases.
C29_EmptyOrComplete ==
  generated.kind # "none"
    => /\ generated.kind = "return"
       /\ (RequestFailed \/ NotJson \/ LacksField) => generated.value = EmptyDict
       /\ ~(RequestFailed \/ NotJson \/ LacksField)
            => RequiredFields \cup OptionalFields \subseteq DOMAIN generated.value

====
